---------------------------- MODULE Spec2Model ----------------------------
(***************************************************************************)
(* MEDIS: the wavefront ensemble (medis/optics.py, class Wavefronts) and   *)
(* the run cache controller (medis/medis_main.py, class RunMedis).         *)
(*                                                                         *)
(* Python indices are 0-based; TLA+ sequences are 1-based, so entry i of   *)
(* a Python list is element i+1 of the sequence that models it.            *)
(***************************************************************************)
EXTENDS Integers, Sequences, FiniteSets, TLC

(***************************************************************************)
(* Bounds of the model.                                                    *)
(***************************************************************************)
MaxWvl == 2
MaxCompanions == 1
MaxOps == 1
MaxPlanes == 2
MaxEdits == 1
MaxTsteps == 2
MaxSamples == 3
MaxGrid == 4
MaxFrames == 2
MaxStart == 1
MaxProcs == 2
MaxChunks == 4
MaxChunkSteps == 3
MaxPart == 1

(***************************************************************************)
(* Values.                                                                 *)
(***************************************************************************)
None == "None"

\* plane names a prescription passes as plane_name, or lists in sp.save_list
PlaneNames == {"atmosphere", "pupil", "detector"}

\* __name__ of the functions handed to loop_collection
FuncNames == {"add_atmos", "pupil"}

\* keyword arguments a caller may pass to loop_collection
KwKeys == {"plane_name", "radius"}

KwValues(k) == IF k = "plane_name" THEN PlaneNames \cup {None} ELSE {"r"}

KwargsSet == UNION {{kw \in [K -> PlaneNames \cup {None, "r"}] :
                        \A k \in K : kw[k] \in KwValues(k)} : K \in SUBSET KwKeys}

GridSizes == {8}

\* the values of sp.save_list: up to two distinct plane names, in either order
SaveLists == {<<>>} \cup {<<a>> : a \in PlaneNames}
                   \cup {s \in {<<a, b>> : a \in PlaneNames, b \in PlaneNames} :
                             s[1] # s[2]}

InList(x, s) == \E i \in 1..Len(s) : s[i] = x

VARIABLES
    sp,              \* simulation params: save_list, save_fields, grid_size, auto_load
    ap,              \* astro params: n_wvl_init, companion, contrast
    wf_collection,   \* Wavefronts.wf_collection[iw, io]
    saved_planes,    \* Wavefronts.saved_planes
    Efield_planes,   \* Wavefronts.Efield_planes
    plane_sampling,  \* Wavefronts.plane_sampling
    returned,        \* what the most recent Wavefronts method call returned
    params,          \* RunMedis.params: group name -> the items of the group's __dict__
    datadir,         \* whether iop.datadir exists
    testdir,         \* iop.testdir on disk
    backups,         \* the <name>_backup_<now> directories on disk, oldest first
    result,          \* how the most recent RunMedis(...) call ended
    edits,           \* how many times the run script changed a parameter
    post,            \* the most recent call of a cube-processing function
    driver,          \* run_mmedis: where the driver process is
    workers,         \* the gen_timeseries processes
    inqueue,         \* multiprocessing.Queue of timestep indices and sentinels
    spectral_queue,  \* multiprocessing.Queue of (t, spectralcube, sampling)
    obs_sequence,    \* run_mmedis: obs_sequence, one slot per frame
    faulty,          \* the timesteps at which the prescription raises
    tel,             \* RunMedis.__call__: self.tel
    cam,             \* RunMedis.__call__: self.cam and the calls it received
    stage,           \* RunMedis.__call__: where the call is
    presc            \* a prescription run: which one, its toggles, where it is

wfvars == <<sp, ap, wf_collection, saved_planes, Efield_planes, plane_sampling, returned>>

(***************************************************************************)
(* numpy arrays are modelled by their shape and their entries along the    *)
(* leading axis.                                                           *)
(***************************************************************************)
NdArray(shape, data) == [shape |-> shape, data |-> data]

Tail5(shape) == SubSeq(shape, 2, Len(shape))

\* np.shape(self.wf_collection)
CollectionShape == IF ap.companion
                   THEN <<ap.n_wvl_init, 1 + Len(ap.contrast)>>
                   ELSE <<ap.n_wvl_init, 1>>

Cells == (0..(CollectionShape[1] - 1)) \X (0..(CollectionShape[2] - 1))

\* a cell np.empty(..., dtype=object) leaves unset
EmptyCell == [populated |-> FALSE, wfarr |-> [state |-> <<>>, origin |-> "corner"],
              lamda |-> 0, recv |-> {}]

\* proper.prop_begin: a fresh wavefront, origin of the array at the corner; the
\* field is identified by the operations applied to it since
prop_begin(iw) == [populated |-> TRUE, wfarr |-> [state |-> <<>>, origin |-> "corner"],
                   lamda |-> iw, recv |-> {}]

\* proper.prop_shift_center: moves the origin between corner and centre
prop_shift_center(wfarr) ==
    [wfarr EXCEPT !.origin = IF @ = "corner" THEN "center" ELSE "corner"]

\* proper.prop_get_sampling: the sampling of a wavefront at its current plane
prop_get_sampling(wf) == <<wf.lamda, wf.wfarr.state>>

AllCellsPopulated == \A c \in Cells : wf_collection[c].populated

(***************************************************************************)
(* Wavefronts                                                              *)
(***************************************************************************)
\* the part of the object save_plane reads and rebinds
Archive == [Efield_planes |-> Efield_planes,
            saved_planes |-> saved_planes,
            plane_sampling |-> plane_sampling]

\* np.vstack with its operands swapped: the new entry lands in front
vstack_reversed(a, b) ==
    [shape |-> <<a.shape[1] + b.shape[1]>> \o SubSeq(a.shape, 2, Len(a.shape)),
     data |-> b.data \o a.data]

\* np.vstack((a, b)): concatenation along the leading axis
vstack(a, b) == NdArray(<<a.shape[1] + b.shape[1]>> \o Tail5(a.shape), a.data \o b.data)

\* np.array(list of equally shaped arrays): a new leading axis; np.array([]) has shape (0,)
np_array_of_list(lst, inner) ==
    NdArray(IF Len(lst) = 0 THEN <<0>> ELSE <<Len(lst)>> \o inner, lst)

\* Wavefronts.__init__
WavefrontsInit ==
    /\ wf_collection = [c \in Cells |-> EmptyCell]
    /\ saved_planes = <<>>
    /\ Efield_planes = NdArray(<<0, CollectionShape[1], CollectionShape[2],
                                 sp.grid_size, sp.grid_size>>, <<>>)
    /\ plane_sampling = <<>>
    /\ returned = <<>>

\* initialize_proper beginning a wavefront for the star only
wfs_star_only(iw) == <<prop_begin(iw)>>

\* initialize_proper, lines 78-89: wfs, the star first, then one wavefront
\* per entry of ap.contrast when ap.companion is set
wfs(iw) ==
    <<prop_begin(iw)>> \o (IF ap.companion
                           THEN [ix \in 1..Len(ap.contrast) |-> prop_begin(iw)]
                           ELSE <<>>)

\* Wavefronts.initialize_proper; lines 90-91 assign wfs[io] to cell (iw, io)
InitializeProper ==
    /\ ~AllCellsPopulated
    /\ wf_collection' = [c \in Cells |-> IF c[2] < Len(wfs(c[1]))
                                         THEN wfs(c[1])[c[2] + 1]
                                         ELSE wf_collection[c]]
    /\ returned' = <<>>
    /\ UNCHANGED <<sp, ap, saved_planes, Efield_planes, plane_sampling>>

\* the name inferred from the function wins over the plane_name passed
ResolveInferredFirst(func, kwargs) ==
    IF InList(func, sp.save_list)
    THEN func
    ELSE IF "plane_name" \in DOMAIN kwargs /\ InList(kwargs["plane_name"], sp.save_list)
         THEN kwargs["plane_name"]
         ELSE None

\* loop_collection, lines 111-120: the name the save-list check uses
ResolvePlaneName(func, kwargs) ==
    IF "plane_name" \in DOMAIN kwargs
    THEN IF InList(kwargs["plane_name"], sp.save_list)
         THEN kwargs["plane_name"]
         ELSE None
    ELSE IF InList(func, sp.save_list)
         THEN func
         ELSE None

\* loop_collection, line 112: kwargs.pop('plane_name')
ForwardedKwargs(kwargs) ==
    [k \in DOMAIN kwargs \ {"plane_name"} |-> kwargs[k]]

\* func(wf, *args, **kwargs): the optical operation acts on one cell in place
ApplyFunc(func, wf, kwargs) ==
    [wf EXCEPT !.wfarr.state = Append(@, func), !.recv = DOMAIN kwargs]

\* the loop over the wavelengths alone, object 0 only
ApplyToStarOnly(coll, func, kwargs) ==
    [c \in DOMAIN coll |-> IF c[2] = 0 THEN ApplyFunc(func, coll[c], kwargs)
                                       ELSE coll[c]]

\* loop_collection, lines 122-125
ApplyToAll(coll, func, kwargs) ==
    [c \in DOMAIN coll |-> ApplyFunc(func, coll[c], kwargs)]

\* save_plane, lines 147-156: the new archive entry
NewEfield(coll) ==
    NdArray(<<1, CollectionShape[1], CollectionShape[2], sp.grid_size, sp.grid_size>>,
            <<[c \in DOMAIN coll |-> prop_shift_center(coll[c].wfarr)]>>)

\* save_plane, lines 151-156
SampLambda(coll) ==
    [i \in 1..ap.n_wvl_init |-> prop_get_sampling(coll[<<i - 1, 0>>])]

\* save_plane recording the name of every plane it is asked for
save_plane_names_all(coll, arch, location) ==
    IF location # None /\ InList(location, sp.save_list)
    THEN [Efield_planes |-> vstack(arch.Efield_planes, NewEfield(coll)),
          saved_planes |-> Append(arch.saved_planes, location),
          plane_sampling |-> Append(arch.plane_sampling, SampLambda(coll))]
    ELSE IF location # None
         THEN [arch EXCEPT !.saved_planes = Append(@, location)]
         ELSE arch

\* save_plane without the save-list check
save_plane_unlisted(coll, arch, location) ==
    IF location # None
    THEN [Efield_planes |-> vstack(arch.Efield_planes, NewEfield(coll)),
          saved_planes |-> Append(arch.saved_planes, location),
          plane_sampling |-> Append(arch.plane_sampling, SampLambda(coll))]
    ELSE arch

\* Wavefronts.save_plane
save_plane(coll, arch, location) ==
    IF location # None /\ InList(location, sp.save_list)
    THEN [Efield_planes |-> vstack(arch.Efield_planes, NewEfield(coll)),
          saved_planes |-> Append(arch.saved_planes, location),
          plane_sampling |-> Append(arch.plane_sampling, SampLambda(coll))]
    ELSE arch

\* loop_collection, lines 127-129
SaveAfterLoop(coll, arch, plane_name) ==
    IF sp.save_fields /\ plane_name # None
    THEN save_plane(coll, arch, plane_name)
    ELSE arch

\* focal_plane saving the detector plane whatever sp.save_fields
SaveDetectorAlways(coll, arch) == save_plane(coll, arch, "detector")

\* focal_plane, lines 169-171
SaveDetector(coll, arch) ==
    IF sp.save_fields
    THEN save_plane(coll, arch, "detector")
    ELSE arch

SetArchive(arch) ==
    /\ Efield_planes' = arch.Efield_planes
    /\ saved_planes' = arch.saved_planes
    /\ plane_sampling' = arch.plane_sampling

WithinBounds ==
    /\ AllCellsPopulated
    /\ Len(saved_planes) < MaxPlanes

\* Wavefronts.loop_collection(func, **kwargs)
LoopCollection(func, kwargs) ==
    /\ WithinBounds
    /\ Len(wf_collection[<<0, 0>>].wfarr.state) < MaxOps
    /\ LET coll == ApplyToAll(wf_collection, func, ForwardedKwargs(kwargs))
       IN  /\ wf_collection' = coll
           /\ SetArchive(SaveAfterLoop(coll, Archive, ResolvePlaneName(func, kwargs)))
    /\ returned' = <<>>
    /\ UNCHANGED <<sp, ap>>

\* a direct call of Wavefronts.save_plane(location)
SavePlane(location) ==
    /\ WithinBounds
    /\ SetArchive(save_plane(wf_collection, Archive, location))
    /\ returned' = <<>>
    /\ UNCHANGED <<sp, ap, wf_collection>>

\* Wavefronts.focal_plane()
FocalPlane ==
    /\ WithinBounds
    /\ LET arch == SaveDetector(wf_collection, Archive)
       IN  /\ SetArchive(arch)
           /\ returned' = <<arch.Efield_planes,
                            np_array_of_list(arch.plane_sampling, <<ap.n_wvl_init>>)>>
    /\ UNCHANGED <<sp, ap, wf_collection>>


(***************************************************************************)
(* RunMedis                                                                *)
(***************************************************************************)
rmvars == <<params, datadir, testdir, backups, result, edits>>

postvars == <<post>>

mmvars == <<driver, workers, inqueue, spectral_queue, obs_sequence, faulty>>

callvars == <<tel, cam, stage>>

prescvars == <<presc>>

vars == <<sp, ap, wf_collection, saved_planes, Efield_planes, plane_sampling, returned,
          params, datadir, testdir, backups, result, edits, post,
          driver, workers, inqueue, spectral_queue, obs_sequence, faulty,
          tel, cam, stage, presc>>

\* check_params, line 135: the groups in the order they are compared;
\* also the key order of self.params, line 71
GroupOrder == <<"ap", "tp", "atmp", "cdip", "iop", "sp", "mp">>

Groups == {GroupOrder[i] : i \in 1..Len(GroupOrder)}

AttrNames == {"a", "b"}

\* attribute values: Python scalars, numpy arrays, and objects whose __eq__
\* refuses a different operand
Scalar(x) == [kind |-> "scalar", v |-> <<x>>, tag |-> ""]
Array(v) == [kind |-> "array", v |-> v, tag |-> ""]
Opaque(t) == [kind |-> "opaque", v |-> <<>>, tag |-> t]

AttrValues == {Scalar(0), Scalar(1), Array(<<0, 1>>), Array(<<0, 0, 0>>), Opaque("u")}

Min(a, b) == IF a < b THEN a ELSE b

Max(a, b) == IF a < b THEN b ELSE a

\* numpy broadcasting of two 1-d operands (a scalar has one element)
Broadcastable(a, b) == Len(a.v) = Len(b.v) \/ Len(a.v) = 1 \/ Len(b.v) = 1

BroadcastAt(a, i) == IF Len(a.v) = 1 THEN a.v[1] ELSE a.v[i]

\* np.all(load_val == this_val), line 140: "True", "False", or the exception raised
np_all_eq(load_val, this_val) ==
    IF load_val.kind = "opaque" \/ this_val.kind = "opaque"
    THEN IF load_val = this_val THEN "True" ELSE "TypeError"
    ELSE IF ~Broadcastable(load_val, this_val)
         THEN "ValueError"
         ELSE IF \A i \in 1..Max(Len(load_val.v), Len(this_val.v)) :
                     BroadcastAt(load_val, i) = BroadcastAt(this_val, i)
              THEN "True"
              ELSE "False"

NoExc == "no exception"

\* the exceptions the try statement of lines 139-142 catches
Caught == {"ValueError"}

\* check_params, lines 139-142: one zipped pair of items
EntryMatch(this_item, load_item) ==
    IF this_item[1] # load_item[1]
    THEN [exc |-> NoExc, match |-> FALSE]
    ELSE LET c == np_all_eq(load_item[2], this_item[2])
         IN  IF c \in {"True", "False"}
             THEN [exc |-> NoExc, match |-> (c = "True")]
             ELSE IF c \in Caught
                  THEN [exc |-> NoExc, match |-> FALSE]
                  ELSE [exc |-> c, match |-> FALSE]

\* check_params, lines 136-147: the matches list of one group, built pair by pair
RECURSIVE ZipMatches(_, _, _, _)
ZipMatches(this_items, load_items, i, matches) ==
    IF i > Min(Len(this_items), Len(load_items))
    THEN [exc |-> NoExc, matches |-> matches]
    ELSE LET m == EntryMatch(this_items[i], load_items[i])
         IN  IF m.exc # NoExc
             THEN [exc |-> m.exc, matches |-> matches]
             ELSE ZipMatches(this_items, load_items, i + 1, Append(matches, m.match))

\* np.any in place of np.all
np_any(matches) == \E i \in 1..Len(matches) : matches[i]

\* np.all(matches), line 149
np_all(matches) == \A i \in 1..Len(matches) : matches[i]

\* check_params, lines 135-151: group by group, stopping at an exception
RECURSIVE CheckGroups(_, _, _, _)
CheckGroups(this_params, loaded_params, g, match_params) ==
    IF g > Len(GroupOrder)
    THEN [exc |-> NoExc, match_params |-> match_params]
    ELSE LET p == GroupOrder[g]
             z == ZipMatches(this_params[p], loaded_params[p], 1, <<>>)
         IN  IF z.exc # NoExc
             THEN [exc |-> z.exc, match_params |-> match_params]
             ELSE CheckGroups(this_params, loaded_params, g + 1,
                              (p :> np_all(z.matches)) @@ match_params)

\* pickle.dump(self.params, ...), line 124: the dictionary's items in key order
pickle_dump(ps) == [i \in 1..Len(GroupOrder) |-> <<GroupOrder[i], ps[GroupOrder[i]]>>]

\* pickle.load(handle), line 131
pickle_load(bytes) ==
    [p \in {bytes[i][1] : i \in 1..Len(bytes)} |->
        bytes[CHOOSE i \in 1..Len(bytes) : bytes[i][1] = p][2]]


EmptyDict == [p \in {} |-> TRUE]

\* RunMedis.check_params: the match_params it returns, or the exception it raises
check_params == CheckGroups(params, pickle_load(testdir.pkl[1]), 1, EmptyDict)

\* all(params_match.values()), line 90
exact_match(params_match) == \A p \in DOMAIN params_match : params_match[p]

\* a directory that does not exist
NoDir == [exists |-> FALSE, pkl |-> <<>>, h5 |-> FALSE, maps |-> FALSE]

\* make_testdir creating the directory without writing the snapshot
make_testdir_mkdir_only(dir) ==
    IF ~dir.exists THEN [NoDir EXCEPT !.exists = TRUE] ELSE dir

\* RunMedis.make_testdir applied to directory dir
make_testdir(dir) ==
    LET made == IF ~dir.exists THEN [NoDir EXCEPT !.exists = TRUE] ELSE dir
    IN  [made EXCEPT !.pkl = <<pickle_dump(params)>>]

\* line 84: not os.path.exists(iop.testdir) or not os.path.exists(iop.params_logs)
NoSimulationData == ~testdir.exists \/ testdir.pkl = <<>>

\* the state of section 4.5 a constructor call finds on disk
RunState ==
    IF NoSimulationData THEN "NO_PRIOR_RUN"
    ELSE IF check_params.exc # NoExc THEN "COMPARISON_RAISED"
    ELSE IF exact_match(check_params.match_params) THEN "PRIOR_RUN_MATCHES"
    ELSE "PRIOR_RUN_DIFFERS"

\* the answer compared as typed
as_typed(choice) == choice

\* choice.lower(), lines 104-109
lower(choice) ==
    CASE choice = "Q" -> "q"
      [] choice = "R" -> "r"
      [] choice = "P" -> "p"
      [] choice = "L" -> "l"
      [] OTHER -> choice

\* what the user may type at the prompt of line 98
Choices == {"Q", "r", "p", "L", "x"}

Result(outcome, found, prompted, exc) ==
    [outcome |-> outcome, found |-> found, prompted |-> prompted, exc |-> exc,
     choice |-> None]

\* a call that ended after input() returned choice
Answered(r, choice) == [r EXCEPT !.choice = choice]

\* datetime.now().strftime(...), line 94, has a resolution of one second: now is 0
\* for a timestamp no backup directory carries yet, and i for the timestamp in the
\* name of the i-th backup directory on disk
Timestamps == 0..Len(backups)

\* lines 106-108: os.rename(iop.testdir, backup_testr) and self.make_testdir();
\* os.rename raises OSError when backup_testr is an existing, non-empty directory
ArchiveAndRestart(choice, now) ==
    IF now = 0
    THEN /\ backups' = Append(backups, testdir)
         /\ testdir' = make_testdir(NoDir)
         /\ result' = Answered(Result("returned", "PRIOR_RUN_DIFFERS", TRUE, NoExc),
                               choice)
    ELSE /\ result' = Answered(Result("raised", "PRIOR_RUN_DIFFERS", TRUE, "OSError"),
                               choice)
         /\ UNCHANGED <<testdir, backups>>

NoResult == Result("none", "none", FALSE, NoExc)

\* the snapshot removed whether or not fields.h5 exists
OverwritePickleUnchecked(choice) ==
    /\ testdir' = [testdir EXCEPT !.pkl = <<>>]
    /\ result' = Answered(Result("returned", "PRIOR_RUN_DIFFERS", TRUE, NoExc), choice)
    /\ UNCHANGED backups

\* the whole run directory removed in place of the snapshot alone
OverwritePickleAndMaps(choice) ==
    /\ IF testdir.h5
       THEN /\ result' = Answered(Result("exited", "PRIOR_RUN_DIFFERS", TRUE, NoExc),
                                  choice)
            /\ UNCHANGED testdir
       ELSE /\ testdir' = NoDir
            /\ result' = Answered(Result("returned", "PRIOR_RUN_DIFFERS", TRUE, NoExc),
                                  choice)
    /\ UNCHANGED backups

\* lines 109-117: exit() if fields.h5 exists, else os.remove of params.pkl
OverwritePickle(choice) ==
    IF testdir.h5
    THEN /\ result' = Answered(Result("exited", "PRIOR_RUN_DIFFERS", TRUE, NoExc),
                               choice)
         /\ UNCHANGED <<testdir, backups>>
    ELSE /\ testdir' = [testdir EXCEPT !.pkl = <<>>]
         /\ result' = Answered(Result("returned", "PRIOR_RUN_DIFFERS", TRUE, NoExc),
                               choice)
         /\ UNCHANGED backups

\* lines 97-117: the prior run differs from the requested configuration
ResolveDifference(choice) ==
    IF sp.auto_load
    THEN /\ result' = Result("returned", "PRIOR_RUN_DIFFERS", FALSE, NoExc)
         /\ UNCHANGED <<testdir, backups>>
    ELSE CASE lower(choice) = "q" ->
                /\ result' = Answered(Result("exited", "PRIOR_RUN_DIFFERS", TRUE, NoExc),
                                      choice)
                /\ UNCHANGED <<testdir, backups>>
           [] lower(choice) = "r" ->
                \E now \in Timestamps : ArchiveAndRestart(choice, now)
           [] lower(choice) = "p" -> OverwritePickle(choice)
           [] OTHER ->
                /\ result' = Answered(Result("returned", "PRIOR_RUN_DIFFERS", TRUE,
                                             NoExc), choice)
                /\ UNCHANGED <<testdir, backups>>

\* the matching branch rewriting the configuration snapshot
ReuseAndRewrite ==
    /\ result' = Result("returned", "PRIOR_RUN_MATCHES", FALSE, NoExc)
    /\ testdir' = make_testdir(testdir)
    /\ UNCHANGED backups

\* lines 91-92: the configuration files match, initialization is over
ReuseCachedRun ==
    /\ result' = Result("returned", "PRIOR_RUN_MATCHES", FALSE, NoExc)
    /\ UNCHANGED <<testdir, backups>>

\* RunMedis.__init__, lines 79-117; input() is reached only when the prior run
\* differs and sp.auto_load is off, and may return any choice
RunMedisInit ==
    /\ datadir' = TRUE
    /\ IF NoSimulationData
       THEN /\ testdir' = make_testdir(testdir)
            /\ result' = Result("returned", "NO_PRIOR_RUN", FALSE, NoExc)
            /\ UNCHANGED backups
       ELSE LET params_match == check_params
            IN  IF params_match.exc # NoExc
                THEN /\ result' = Result("raised", "COMPARISON_RAISED", FALSE,
                                         params_match.exc)
                     /\ UNCHANGED <<testdir, backups>>
                ELSE IF exact_match(params_match.match_params)
                     THEN ReuseCachedRun
                     ELSE \E choice \in Choices : ResolveDifference(choice)
    /\ UNCHANGED <<params, edits, sp, ap>>
    /\ UNCHANGED <<wf_collection, saved_planes, Efield_planes, plane_sampling, returned>>

\* the run script assigns a new value to an existing parameter (ap.contrast = ...)
SetAttr(p, i, val) ==
    /\ edits < MaxEdits
    /\ i \in 1..Len(params[p])
    /\ params[p][i][2] # val
    /\ params' = [params EXCEPT ![p][i] = <<@[1], val>>]
    /\ edits' = edits + 1
    /\ UNCHANGED <<datadir, testdir, backups, result, wfvars>>

\* the run script sets a parameter the group did not have: __dict__ gains a last item
AddAttr(p, name, val) ==
    /\ edits < MaxEdits
    /\ \A i \in 1..Len(params[p]) : params[p][i][1] # name
    /\ params' = [params EXCEPT ![p] = Append(@, <<name, val>>)]
    /\ edits' = edits + 1
    /\ UNCHANGED <<datadir, testdir, backups, result, wfvars>>

\* a parameter is removed from a group (delattr, or a release that dropped it)
DelAttr(p, i) ==
    /\ edits < MaxEdits
    /\ i \in 1..Len(params[p])
    /\ params' = [params EXCEPT ![p] = SubSeq(@, 1, i - 1) \o SubSeq(@, i + 1, Len(@))]
    /\ edits' = edits + 1
    /\ UNCHANGED <<datadir, testdir, backups, result, wfvars>>

\* RunMedis.__call__, lines 159-164: the Telescope stage leaves the precomputed
\* maps and, when it saves to disk, fields.h5 in the run directory
TelescopeCall(save_to_disk) ==
    /\ result.outcome = "returned"
    /\ testdir.exists
    /\ testdir' = [testdir EXCEPT !.maps = TRUE, !.h5 = @ \/ save_to_disk]
    /\ UNCHANGED <<params, datadir, backups, result, edits, wfvars>>

\* the groups the run script edits: the first and the last one compared
EditedGroups == {"ap", "mp"}

\* the configuration the model starts from
BaseParams ==
    [p \in Groups |-> IF p = "ap"
                      THEN <<<<"a", Scalar(0)>>, <<"b", Array(<<0, 0>>)>>>>
                      ELSE <<<<"a", Scalar(0)>>>>]

(***************************************************************************)
(* Functions processing complex cubes (medis/optics.py, lines 183-248)     *)
(***************************************************************************)
Raised(exc) == [exc |-> exc, value |-> <<>>]

Returned(value) == [exc |-> NoExc, value |-> value]

\* int(x / 2) for an integer x: Python's int() truncates towards zero
int_half(x) == IF x >= 0 THEN x \div 2 ELSE -((-x) \div 2)

\* list.index returning the 1-based position
list_index_from_one(lst, x) ==
    IF InList(x, lst)
    THEN Returned(CHOOSE i \in 1..Len(lst) :
                      lst[i] = x /\ \A j \in 1..(i - 1) : lst[j] # x)
    ELSE Raised("ValueError")

\* list.index(x): the 0-based position of the first occurrence, or ValueError
list_index(lst, x) ==
    IF InList(x, lst)
    THEN Returned((CHOOSE i \in 1..Len(lst) :
                       lst[i] = x /\ \A j \in 1..(i - 1) : lst[j] # x) - 1)
    ELSE Raised("ValueError")

\* a 6D array (timestep, plane, wavelength, object, x, y) filled so that every
\* (timestep, plane) block is told apart: data[it][ip] = <<it - 1, ip - 1>>
Cube6(nt, np, tail) ==
    NdArray(<<nt, np>> \o tail,
            [it \in 1..nt |-> [ip \in 1..np |-> <<it - 1, ip - 1>>]])

\* extract_plane, lines 220-221: data_in[:, ip, :, :, :, :]
extract_plane(data_in, plane_name) ==
    LET ip == list_index(sp.save_list, plane_name)
    IN  IF ip.exc # NoExc
        THEN Raised(ip.exc)
        ELSE IF ip.value >= data_in.shape[2]
             THEN Raised("IndexError")
             ELSE Returned(NdArray(<<data_in.shape[1]>> \o SubSeq(data_in.shape, 3, 6),
                                   [it \in 1..data_in.shape[1] |->
                                       data_in.data[it][ip.value + 1]]))

\* np.linspace(0, 1, n_in) -> np.linspace(0, 1, n_out) by interp1d (linear): the
\* j-th output sample lies at (j-1)(n_in-1)/(n_out-1) in units of the input grid;
\* values are kept as integers scaled by n_out - 1
interp1d(data, n_in, n_out) ==
    [scale |-> n_out - 1,
     v |-> [j \in 1..n_out |->
              LET pos == (j - 1) * (n_in - 1)
                  k == IF j = n_out THEN n_in - 1 ELSE (pos \div (n_out - 1)) + 1
                  rem == pos - (k - 1) * (n_out - 1)
              IN  data[k] * (n_out - 1) + (data[k + 1] - data[k]) * rem]]

\* interp_wavelength, lines 195-203, on the samples along the wavelength axis
interp_wavelength(data_in) ==
    IF ap.interp_wvl /\ 1 < ap.n_wvl_init /\ ap.n_wvl_init < ap.n_wvl_final
    THEN Returned(interp1d(data_in, ap.n_wvl_init, ap.n_wvl_final))
    ELSE Returned([scale |-> 1, v |-> data_in])

\* the indices a[start:stop] selects on an axis of length n (0-based)
slice(start, stop, n) ==
    LET lo == IF start < 0 THEN Max(start + n, 0) ELSE Min(start, n)
        hi == IF stop < 0 THEN Max(stop + n, 0) ELSE Min(stop, n)
    IN  [i \in 1..Max(hi - lo, 0) |-> lo + i - 1]

\* extract_center, lines 243-248: the entries of wf the result holds, by index
extract_center(wf_shape) ==
    LET EXTRACT == sp.maskd_size
        nx == wf_shape[1]
        ny == wf_shape[2]
        rows == slice(int_half(ny - EXTRACT), int_half(ny + EXTRACT), nx)
        cols == slice(int_half(nx - EXTRACT), int_half(nx + EXTRACT), ny)
    IN  Returned([r \in 1..Len(rows) |-> [c \in 1..Len(cols) |-> <<rows[r], cols[c]>>]])

NoCall == [func |-> "none", args |-> <<>>, ret |-> Returned(<<>>)]

Call(func, args, ret) == [func |-> func, args |-> args, ret |-> ret]

\* a call of extract_plane(data_in, plane_name)
ExtractPlane(data_in, plane_name) ==
    /\ post' = Call("extract_plane", <<data_in, plane_name>>,
                    extract_plane(data_in, plane_name))
    /\ UNCHANGED <<sp, ap>>

\* a call of interp_wavelength(data_in, ax)
InterpWavelength(data_in) ==
    /\ post' = Call("interp_wavelength", <<data_in>>, interp_wavelength(data_in))
    /\ UNCHANGED <<sp, ap>>

\* a call of extract_center(wf)
ExtractCenter(wf_shape) ==
    /\ post' = Call("extract_center", <<wf_shape>>, extract_center(wf_shape))
    /\ UNCHANGED <<sp, ap>>

(***************************************************************************)
(* Intensity: cpx_to_intensity (medis/optics.py)                           *)
(***************************************************************************)
\* a complex number with integer parts
Complex(re, im) == [re |-> re, im |-> im]

\* a float: an integer plus a rounding error counted in units in the last place
Float(int, err) == [int |-> int, err |-> err]

IsSquare(n) == \E k \in 0..n : k * k = n

\* what the rounding of a square root can leave after squaring
Rounding == {-1, 0, 1}

\* the square of the real part alone
re_squared(z, e) == Float(z.re * z.re, 0)

\* np.abs(z)**2 for one element: the square root is exact when re^2 + im^2 is
\* a perfect square and is rounded otherwise, e being the error left in the square
np_abs_squared(z, e) ==
    LET n == z.re * z.re + z.im * z.im
    IN  Float(n, IF IsSquare(n) THEN 0 ELSE e)

\* cpx_to_intensity: np.abs(data_in)**2, elementwise along the object axis
cpx_to_intensity(data_in, e) ==
    [io \in DOMAIN data_in |-> np_abs_squared(data_in[io], e[io])]

\* np.sum over the object axis of complex fields
RECURSIVE np_sum_complex(_)
np_sum_complex(data) ==
    IF data = <<>> THEN Complex(0, 0)
    ELSE LET rest == np_sum_complex(Tail(data))
         IN  Complex(Head(data).re + rest.re, Head(data).im + rest.im)

\* np.sum over the object axis of intensities
RECURSIVE np_sum_float(_)
np_sum_float(data) ==
    IF data = <<>> THEN Float(0, 0)
    ELSE LET rest == np_sum_float(Tail(data))
         IN  Float(Head(data).int + rest.int, Head(data).err + rest.err)

\* the two orders of converting and summing two object fields at one pixel
CpxToIntensity(data_in, e) ==
    /\ post' = Call("cpx_to_intensity", data_in,
                    [each |-> cpx_to_intensity(data_in, SubSeq(e, 1, 2)),
                     then_sum |-> np_sum_float(cpx_to_intensity(data_in, SubSeq(e, 1, 2))),
                     sum_then |-> cpx_to_intensity(<<np_sum_complex(data_in)>>,
                                                   <<e[3]>>)[1]])
    /\ UNCHANGED <<sp, ap>>

(***************************************************************************)
(* mini-MEDIS Wavefronts.focal_plane (src/optics.py).  A frame is one      *)
(* pixel of the intensity proper.prop_end returns for a cell; tp.pix_shift *)
(* is [0, 0], so that the np.roll of line 135 moves nothing, and the       *)
(* wavelength interpolation of lines 138-143 is off.                       *)
(***************************************************************************)
\* np.zeros((tp.grid_size, tp.grid_size)), lines 121 and 124
np_zeros == 0

\* lines 118-127: the loop over the objects of one wavelength, from object io
\* on; wframes is rebound to zeros in every pass before wframe is added
RECURSIVE object_loop(_, _, _)
object_loop(wframe, io, wframes) ==
    IF io > Len(wframe)
    THEN wframes
    ELSE object_loop(wframe, io + 1, np_zeros + wframe[io])

\* focal_plane, lines 113-132: datacube, one composite frame per wavelength;
\* wframe[iw][io] is what prop_end returns for cell (iw, io)
mini_focal_plane(wframe) ==
    [iw \in DOMAIN wframe |-> object_loop(wframe[iw], 1, np_zeros)]

\* a call of the mini-MEDIS Wavefronts.focal_plane()
MiniFocalPlane(wframe) ==
    /\ post' = Call("focal_plane", wframe, mini_focal_plane(wframe))
    /\ UNCHANGED <<sp, ap>>

(***************************************************************************)
(* mini-MEDIS: run_mmedis and its gen_timeseries workers (mini_medis.py)   *)
(***************************************************************************)
\* what inqueue carries: a timestep index, or the sentinel
Item(t) == [sentinel |-> FALSE, t |-> t]

sentinel == [sentinel |-> TRUE, t |-> 0]

\* the spectral cube pm.prop_run computes for timestep t
spectralcube(t) == [cube |-> t]

\* a slot of np.zeros(...) not yet assigned
Zeros == [cube |-> -1]

\* range(sp.startframe, sp.startframe + sp.numframes), line 87
Frames == sp.startframe..(sp.startframe + sp.numframes - 1)

Procs == 1..sp.num_processes

\* gen_timeseries, line 168 (CDI off): np.zeros(sp.numframes) * np.nan
theta_series_len == sp.numframes

NotStarted == [pc |-> "not started", t |-> -1, it |-> -1, got |-> <<>>,
               exc |-> NoExc, raised_at |-> -1]

Terminated(w) == workers[w].pc = "terminated"

\* the driver before line 80; arrived lists the tags line 95 received
DriverStart == [pc |-> "start", i |-> 0, arrived |-> <<>>]

At(pc, i) == [driver EXCEPT !.pc = pc, !.i = i]

\* the result placed by its position of arrival
slot_by_arrival(t, i) == i

\* line 96: the index of obs_sequence a result tagged t goes to
slot(t, i) == t - sp.startframe

\* lines 80-84: the workers are created and started
StartWorkers ==
    /\ driver.pc = "start"
    /\ workers' = [w \in Procs |-> [NotStarted EXCEPT !.pc = "get"]]
    /\ driver' = At("put", 0)
    /\ UNCHANGED <<sp, inqueue, spectral_queue, obs_sequence, faulty>>

\* lines 87-88: inqueue.put(t), one timestep per step
PutTimestep ==
    /\ driver.pc = "put"
    /\ inqueue' = Append(inqueue, Item(sp.startframe + driver.i))
    /\ driver' = IF driver.i + 1 = sp.numframes
                 THEN At("put sentinel", 0)
                 ELSE At("put", driver.i + 1)
    /\ UNCHANGED <<sp, workers, spectral_queue, obs_sequence, faulty>>

\* lines 90-91: inqueue.put(sentinel), one per process
PutSentinel ==
    /\ driver.pc = "put sentinel"
    /\ inqueue' = Append(inqueue, sentinel)
    /\ driver' = IF driver.i + 1 = sp.num_processes
                 THEN At("collect", 0)
                 ELSE At("put sentinel", driver.i + 1)
    /\ UNCHANGED <<sp, workers, spectral_queue, obs_sequence, faulty>>

\* the loop stops one result short of the frames
results_expected_one_less == sp.numframes - 1

\* line 94: range(sp.numframes), the number of results the driver waits for
results_expected == sp.numframes

\* lines 94-96: spectral_queue.get() blocks until a result is there
Collect ==
    /\ driver.pc = "collect"
    /\ spectral_queue # <<>>
    /\ LET t == Head(spectral_queue)[1]
           cube == Head(spectral_queue)[2]
       IN  obs_sequence' = [obs_sequence EXCEPT ![slot(t, driver.i) + 1] = cube]
    /\ spectral_queue' = Tail(spectral_queue)
    /\ driver' = [(IF driver.i + 1 = results_expected
                   THEN At("join", 0)
                   ELSE At("collect", driver.i + 1))
                      EXCEPT !.arrived = Append(@, Head(spectral_queue)[1])]
    /\ UNCHANGED <<sp, workers, inqueue, faulty>>

\* lines 99-100: p.join() blocks until that worker has terminated
Join ==
    /\ driver.pc = "join"
    /\ Terminated(driver.i + 1)
    /\ driver' = IF driver.i + 1 = sp.num_processes
                 THEN At("joined", 0)
                 ELSE At("join", driver.i + 1)
    /\ UNCHANGED <<sp, workers, inqueue, spectral_queue, obs_sequence, faulty>>

\* gen_timeseries, line 171: iter(inqueue.get, sentinel) takes the next item
WorkerGet(w) ==
    /\ workers[w].pc = "get"
    /\ inqueue # <<>>
    /\ LET item == Head(inqueue)
       IN  workers' = [workers EXCEPT ![w] =
               IF item = sentinel
               THEN [@ EXCEPT !.pc = "after loop", !.got = Append(@, item)]
               ELSE [@ EXCEPT !.pc = "run", !.t = item.t, !.it = @ + 1,
                              !.got = Append(@, item)]]
    /\ inqueue' = Tail(inqueue)
    /\ UNCHANGED <<sp, driver, spectral_queue, obs_sequence, faulty>>

\* lines 207-210: except Exception: traceback.print_exc(); the function ends
Except(wk, exc) == [wk EXCEPT !.pc = "terminated", !.exc = exc, !.raised_at = wk.t]

\* lines 172-181: theta_series[t], pm.prop_run, spectral_queue.put
WorkerRun(w) ==
    /\ workers[w].pc = "run"
    /\ LET t == workers[w].t
       IN  IF t >= theta_series_len
           THEN /\ workers' = [workers EXCEPT ![w] = Except(@, "IndexError")]
                /\ UNCHANGED spectral_queue
           ELSE IF t \in faulty
                THEN /\ workers' = [workers EXCEPT ![w] = Except(@, "Exception")]
                     /\ UNCHANGED spectral_queue
                ELSE /\ spectral_queue' =
                            Append(spectral_queue, <<t, spectralcube(t)>>)
                     /\ workers' = [workers EXCEPT ![w].pc = "get"]
    /\ UNCHANGED <<sp, driver, inqueue, obs_sequence, faulty>>

\* lines 183-203, after the loop: it is unbound if no timestep was taken
WorkerAfterLoop(w) ==
    /\ workers[w].pc = "after loop"
    /\ workers' = [workers EXCEPT ![w] =
           IF @.it = -1
           THEN [@ EXCEPT !.pc = "terminated", !.exc = "UnboundLocalError"]
           ELSE [@ EXCEPT !.pc = "terminated"]]
    /\ UNCHANGED <<sp, driver, inqueue, spectral_queue, obs_sequence, faulty>>

(***************************************************************************)
(* RunMedis.__call__ (medis_main.py): fields, then photons by chunks       *)
(***************************************************************************)
\* line 67: the supported products
Products == {"fields", "photons", "rebinned_cube"}

\* self.tel before line 161 or 171
NoTelescope == [num_chunks |-> 0, chunk_steps |-> 0, called |-> FALSE]

\* Telescope(usesave=sp.save_to_disk) followed by self.tel()
Telescope(num_chunks, chunk_steps) ==
    [num_chunks |-> num_chunks, chunk_steps |-> chunk_steps, called |-> TRUE]

\* self.cam before line 167
NoCamera == [photontable_exists |-> FALSE, calls |-> <<>>, saved |-> FALSE]

\* Camera(usesave=sp.save_to_disk, product=self.product)
Camera(photontable_exists) == [NoCamera EXCEPT !.photontable_exists = photontable_exists]

\* the camera receives a call; a call that does not finalise leaves
\* photontable_exists as it is
CameraCall(c, call) == [c EXCEPT !.calls = Append(@, call)]

\* self.tel.load_fields(span=span)['fields']
load_fields(span) == [span |-> span]

\* self.tel.cpx_sequence
cpx_sequence == [cpx_sequence |-> TRUE]

\* the step offset every chunk is given the first one's
abs_step_of_first(ichunk) == 0

\* line 180: abs_step=ichunk*self.tel.chunk_steps
abs_step(ichunk) == ichunk * tel.chunk_steps

\* line 178: span=(ichunk*chunk_steps, (ichunk+1)*chunk_steps)
span(ichunk) == <<ichunk * tel.chunk_steps, (ichunk + 1) * tel.chunk_steps>>

Stage(pc, ichunk) == [stage EXCEPT !.pc = pc, !.ichunk = ichunk]

\* lines 159-175: up to the return, or to the start of the loop of line 177
CallEnter(photontable_exists, num_chunks, chunk_steps) ==
    /\ stage.pc = "start"
    /\ IF stage.product = "fields"
       THEN /\ tel' = Telescope(num_chunks, chunk_steps)
            /\ stage' = Stage("returned", 0)
            /\ UNCHANGED cam
       ELSE IF photontable_exists
            THEN /\ cam' = CameraCall(Camera(TRUE), [method |-> "__call__"])
                 /\ stage' = Stage("returned", 0)
                 /\ UNCHANGED tel
            ELSE /\ tel' = Telescope(num_chunks, chunk_steps)
                 /\ IF num_chunks = 1
                    THEN /\ cam' = CameraCall(Camera(FALSE),
                                       [method |-> "__call__", fields |-> cpx_sequence])
                         /\ stage' = Stage("returned", 0)
                    ELSE /\ cam' = Camera(FALSE)
                         /\ stage' = Stage("chunks", 0)

\* lines 177-181: one pass of the loop over the chunks
ChunkStep ==
    /\ stage.pc = "chunks"
    /\ stage.ichunk < tel.num_chunks
    /\ cam' = CameraCall(cam, [method |-> "__call__",
                               fields |-> load_fields(span(stage.ichunk)),
                               abs_step |-> abs_step(stage.ichunk),
                               finalise_photontable |-> FALSE])
    /\ stage' = Stage("chunks", stage.ichunk + 1)
    /\ UNCHANGED tel

\* lines 183-190: after the loop
AfterChunks ==
    /\ stage.pc = "chunks"
    /\ stage.ichunk = tel.num_chunks
    /\ IF stage.product = "photons" /\ ~cam.photontable_exists
       THEN cam' = [CameraCall(cam, [method |-> "save_photontable",
                                     photonlist |-> <<>>,
                                     index |-> <<"ultralight", "6">>,
                                     populate_subsidiaries |-> TRUE])
                       EXCEPT !.photontable_exists = TRUE, !.saved = TRUE]
       ELSE UNCHANGED cam
    /\ stage' = Stage("returned", stage.ichunk)
    /\ UNCHANGED tel

\* RunMedis.__call__ not called
CallIdle ==
    /\ tel = NoTelescope
    /\ cam = NoCamera
    /\ stage = [pc |-> "idle", ichunk |-> 0, product |-> "fields"]

\* run_mmedis not called
MiniMedisIdle ==
    /\ driver = [DriverStart EXCEPT !.pc = "idle"]
    /\ workers = <<>>
    /\ inqueue = <<>>
    /\ spectral_queue = <<>>
    /\ obs_sequence = <<>>
    /\ faulty = {}

(***************************************************************************)
(* Prescriptions: the opening of Subaru_SCExAO and of general_telescope,   *)
(* up to the aperture that follows the companion step.                     *)
(***************************************************************************)
Statement(func, plane_name, cond) ==
    [func |-> func, plane_name |-> plane_name, cond |-> cond]

\* Subaru_SCExAO.py, lines 142-160
Subaru_SCExAO ==
    << Statement("initialize_proper", None, "always"),
       Statement("add_atmos", "atmosphere", "always"),
       Statement("add_obscurations", None, "always"),
       Statement("prop_circular_aperture", None, "always"),
       Statement("prop_define_entrance", "entrance_pupil", "always"),
       Statement("offset_companion", None, "ap.companion"),
       Statement("prop_circular_aperture", None, "ap.companion") >>

\* general_telescope.py, lines 40-74
general_telescope ==
    << Statement("initialize_proper", None, "always"),
       Statement("prop_circular_aperture", None, "always"),
       Statement("add_obscurations", None, "tp.obscure"),
       Statement("add_atmos", "atmosphere", "tp.use_atmos"),
       Statement("offset_companion", None, "shape[1] > 1"),
       Statement("prop_circular_aperture", None, "shape[1] > 1") >>

Prescription(name) ==
    IF name = "Subaru_SCExAO" THEN Subaru_SCExAO ELSE general_telescope

\* the condition a statement of the prescription is under
Holds(cond) ==
    CASE cond = "always" -> TRUE
      [] cond = "ap.companion" -> ap.companion
      [] cond = "shape[1] > 1" -> CollectionShape[2] > 1
      [] cond = "tp.obscure" -> presc.tp.obscure
      [] cond = "tp.use_atmos" -> presc.tp.use_atmos

\* optics.py offset_companion(wfo), lines 334-356: reads wfo.wf_collection,
\* tilts each companion cell by its ap.companion_xy and scales it by its
\* ap.contrast
offset_companion(wfo) ==
    IF ap.companion
    THEN IF "wf_collection" \notin DOMAIN wfo
         THEN Raised("AttributeError")
         ELSE Returned([wfo EXCEPT !.wf_collection =
                  [c \in DOMAIN wfo.wf_collection |->
                      IF c[2] >= 1
                      THEN [wfo.wf_collection[c] EXCEPT !.wfarr.state =
                               @ \o <<ap.companion_xy[c[2]], ap.contrast[c[2]]>>]
                      ELSE wfo.wf_collection[c]]])
    ELSE Returned(wfo)

Logged(func, via) == [func |-> func, via |-> via]

\* wfo.loop_collection(opx.offset_companion): line 125 calls the function on
\* cell (0, 0) first; an exception leaves the prescription
LoopOffsetCompanion ==
    LET ret == offset_companion(wf_collection[<<0, 0>>])
    IN  /\ presc' = [presc EXCEPT
                         !.calls = Append(@, Logged("offset_companion", "loop_collection")),
                         !.exc = ret.exc,
                         !.pc = IF ret.exc = NoExc THEN @ + 1 ELSE @]
        /\ UNCHANGED <<wf_collection, saved_planes, Efield_planes, plane_sampling>>

\* wfo.loop_collection(func, plane_name=...) for the other functions
LoopOther(stmt) ==
    LET kwargs == IF stmt.plane_name = None
                  THEN <<>>
                  ELSE [k \in {"plane_name"} |-> stmt.plane_name]
        coll == ApplyToAll(wf_collection, stmt.func, ForwardedKwargs(kwargs))
    IN  /\ wf_collection' = coll
        /\ SetArchive(SaveAfterLoop(coll, Archive, ResolvePlaneName(stmt.func, kwargs)))
        /\ presc' = [presc EXCEPT !.calls = Append(@, Logged(stmt.func, "loop_collection")),
                                  !.pc = @ + 1]

\* the prescription executes its next statement
PrescriptionStep ==
    /\ presc.name # None
    /\ presc.exc = NoExc
    /\ presc.pc <= Len(Prescription(presc.name))
    /\ LET stmt == Prescription(presc.name)[presc.pc]
       IN  IF ~Holds(stmt.cond)
           THEN /\ presc' = [presc EXCEPT !.pc = @ + 1]
                /\ UNCHANGED <<wf_collection, saved_planes, Efield_planes, plane_sampling>>
           ELSE IF stmt.func = "initialize_proper"
           THEN /\ wf_collection' = [c \in Cells |-> wfs(c[1])[c[2] + 1]]
                /\ presc' = [presc EXCEPT !.pc = @ + 1]
                /\ UNCHANGED <<saved_planes, Efield_planes, plane_sampling>>
           ELSE IF stmt.func = "offset_companion"
           THEN LoopOffsetCompanion
           ELSE LoopOther(stmt)
    /\ returned' = <<>>
    /\ UNCHANGED <<sp, ap>>

\* no prescription running
PrescriptionIdle ==
    presc = [name |-> None, tp |-> [obscure |-> FALSE, use_atmos |-> FALSE],
             pc |-> 1, exc |-> NoExc, calls |-> <<>>]

(***************************************************************************)
(* Specifications                                                          *)
(***************************************************************************)
SpParams(save_list, save_fields, grid_size, auto_load) ==
    [save_list |-> save_list, save_fields |-> save_fields,
     grid_size |-> grid_size, auto_load |-> auto_load]

ApParams(n_wvl_init, companion, contrast) ==
    [n_wvl_init |-> n_wvl_init, companion |-> companion, contrast |-> contrast]

\* no run directory, no RunMedis call yet
RunMedisIdle ==
    /\ params = BaseParams
    /\ testdir = NoDir
    /\ backups = <<>>
    /\ result = NoResult
    /\ edits = 0

\* the run directory an earlier session left on disk: its snapshot was taken
\* under another value of the last group's parameter
EarlierRun ==
    [NoDir EXCEPT !.exists = TRUE,
                  !.pkl = <<pickle_dump([BaseParams EXCEPT !["mp"][1][2] = Scalar(1)])>>]

InitWavefronts ==
    /\ sp \in {SpParams(sl, sf, g, FALSE) :
                   sl \in SaveLists, sf \in BOOLEAN, g \in GridSizes}
    /\ ap \in {ApParams(w, c, [i \in 1..n |-> "contrast"]) :
                   w \in 1..MaxWvl, c \in BOOLEAN, n \in 0..MaxCompanions}
    /\ WavefrontsInit
    /\ RunMedisIdle
    /\ datadir = FALSE
    /\ post = NoCall
    /\ PrescriptionIdle
    /\ MiniMedisIdle
    /\ CallIdle

NextWavefronts ==
    \/ InitializeProper /\ UNCHANGED <<rmvars, postvars, mmvars, callvars, prescvars>>
    \/ \E func \in FuncNames, kwargs \in KwargsSet :
           LoopCollection(func, kwargs) /\ UNCHANGED <<rmvars, postvars, mmvars, callvars, prescvars>>
    \/ \E location \in PlaneNames \cup {None} :
           SavePlane(location) /\ UNCHANGED <<rmvars, postvars, mmvars, callvars, prescvars>>
    \/ FocalPlane /\ UNCHANGED <<rmvars, postvars, mmvars, callvars, prescvars>>

SpecWavefronts == InitWavefronts /\ [][NextWavefronts]_vars

InitRunMedis ==
    /\ sp \in {SpParams(<<"detector">>, TRUE, 8, al) : al \in BOOLEAN}
    /\ ap = ApParams(1, FALSE, <<>>)
    /\ WavefrontsInit
    /\ params = BaseParams
    /\ \/ testdir = NoDir /\ datadir = FALSE
       \/ testdir = EarlierRun /\ datadir = TRUE
    /\ backups = <<>>
    /\ result = NoResult
    /\ edits = 0
    /\ post = NoCall
    /\ PrescriptionIdle
    /\ MiniMedisIdle
    /\ CallIdle

NextRunMedis ==
    \/ RunMedisInit /\ UNCHANGED <<postvars, mmvars, callvars, prescvars>>
    \/ \E p \in EditedGroups, i \in 1..2, val \in AttrValues :
           SetAttr(p, i, val) /\ UNCHANGED <<postvars, mmvars, callvars, prescvars>>
    \/ \E p \in EditedGroups, name \in AttrNames :
           AddAttr(p, name, Scalar(0)) /\ UNCHANGED <<postvars, mmvars, callvars, prescvars>>
    \/ \E p \in EditedGroups, i \in 1..2 : DelAttr(p, i) /\ UNCHANGED <<postvars, mmvars, callvars, prescvars>>
    \/ \E save_to_disk \in BOOLEAN : TelescopeCall(save_to_disk) /\ UNCHANGED <<postvars, mmvars, callvars, prescvars>>

SpecRunMedis == InitRunMedis /\ [][NextRunMedis]_vars

\* sp and ap as the cube-processing functions read them
SpCubes(save_list, maskd_size) == [save_list |-> save_list, maskd_size |-> maskd_size]

ApCubes(interp_wvl, n_wvl_init, n_wvl_final) ==
    [interp_wvl |-> interp_wvl, n_wvl_init |-> n_wvl_init, n_wvl_final |-> n_wvl_final]

\* save lists of the cube-processing calls
CubeSaveLists == {<<"a", "b", "c">>, <<"pupil", "detector">>, <<"detector">>}

CubePlaneNames == {"a", "b", "c", "d", "pupil", "detector"}

\* the values sampled along the wavelength axis
SampleValues == {0, 1, 3}

InitCubes ==
    /\ sp \in {SpCubes(sl, m) : sl \in CubeSaveLists, m \in 1..MaxGrid}
    /\ ap \in {ApCubes(i, ni, nf) :
                   i \in BOOLEAN, ni \in 1..MaxSamples, nf \in 1..MaxSamples}
    /\ post = NoCall
    /\ PrescriptionIdle
    /\ MiniMedisIdle
    /\ CallIdle
    /\ wf_collection = <<>>
    /\ saved_planes = <<>>
    /\ Efield_planes = NdArray(<<0>>, <<>>)
    /\ plane_sampling = <<>>
    /\ returned = <<>>
    /\ RunMedisIdle
    /\ datadir = FALSE

NextCubes ==
    \/ \E nt \in 1..MaxTsteps, np \in 1..3, plane_name \in CubePlaneNames :
           /\ ExtractPlane(Cube6(nt, np, <<2, 1, 8, 8>>), plane_name)
           /\ UNCHANGED <<rmvars, wf_collection, saved_planes, Efield_planes,
                          plane_sampling, returned, mmvars, callvars, prescvars>>
    \/ \E data_in \in [1..ap.n_wvl_init -> SampleValues] :
           /\ InterpWavelength(data_in)
           /\ UNCHANGED <<rmvars, wf_collection, saved_planes, Efield_planes,
                          plane_sampling, returned, mmvars, callvars, prescvars>>
    \/ \E grid_size \in 1..MaxGrid :
           /\ ExtractCenter(<<grid_size, grid_size>>)
           /\ UNCHANGED <<rmvars, wf_collection, saved_planes, Efield_planes,
                          plane_sampling, returned, mmvars, callvars, prescvars>>

SpecCubes == InitCubes /\ [][NextCubes]_vars

\* sp as run_mmedis and gen_timeseries read it
SpMini(startframe, numframes, num_processes) ==
    [startframe |-> startframe, numframes |-> numframes,
     num_processes |-> num_processes]

\* run_mmedis up to line 77: obs_sequence = np.zeros(...), the queues are empty
InitMiniMedis ==
    /\ sp \in {SpMini(s, n, p) :
                   s \in 0..MaxStart, n \in 1..MaxFrames, p \in 1..MaxProcs}
    /\ faulty \in SUBSET Frames
    /\ driver = DriverStart
    /\ workers = [w \in Procs |-> NotStarted]
    /\ inqueue = <<>>
    /\ spectral_queue = <<>>
    /\ obs_sequence = [i \in 1..sp.numframes |-> Zeros]
    /\ ap = ApParams(1, FALSE, <<>>)
    /\ wf_collection = <<>>
    /\ saved_planes = <<>>
    /\ Efield_planes = NdArray(<<0>>, <<>>)
    /\ plane_sampling = <<>>
    /\ returned = <<>>
    /\ RunMedisIdle
    /\ datadir = FALSE
    /\ post = NoCall
    /\ PrescriptionIdle
    /\ CallIdle

OutsideMiniMedis ==
    <<ap, wf_collection, saved_planes, Efield_planes, plane_sampling, returned,
      rmvars, postvars, callvars, prescvars>>

NextMiniMedis ==
    \/ StartWorkers /\ UNCHANGED OutsideMiniMedis
    \/ PutTimestep /\ UNCHANGED OutsideMiniMedis
    \/ PutSentinel /\ UNCHANGED OutsideMiniMedis
    \/ Collect /\ UNCHANGED OutsideMiniMedis
    \/ Join /\ UNCHANGED OutsideMiniMedis
    \/ \E w \in Procs : WorkerGet(w) /\ UNCHANGED OutsideMiniMedis
    \/ \E w \in Procs : WorkerRun(w) /\ UNCHANGED OutsideMiniMedis
    \/ \E w \in Procs : WorkerAfterLoop(w) /\ UNCHANGED OutsideMiniMedis

SpecMiniMedis == InitMiniMedis /\ [][NextMiniMedis]_vars

\* sp as RunMedis.__call__ reads it (usesave=sp.save_to_disk)
SpCall(save_to_disk) == [save_to_disk |-> save_to_disk]

\* a RunMedis object of any product, about to be called
InitCall ==
    /\ stage \in {[pc |-> "start", ichunk |-> 0, product |-> p] : p \in Products}
    /\ tel = NoTelescope
    /\ cam = NoCamera
    /\ sp \in {SpCall(save_to_disk) : save_to_disk \in BOOLEAN}
    /\ ap = ApParams(1, FALSE, <<>>)
    /\ wf_collection = <<>>
    /\ saved_planes = <<>>
    /\ Efield_planes = NdArray(<<0>>, <<>>)
    /\ plane_sampling = <<>>
    /\ returned = <<>>
    /\ RunMedisIdle
    /\ datadir = FALSE
    /\ post = NoCall
    /\ PrescriptionIdle
    /\ MiniMedisIdle

OutsideCall ==
    <<sp, ap, wf_collection, saved_planes, Efield_planes, plane_sampling, returned,
      rmvars, postvars, mmvars, prescvars>>

NextCall ==
    \/ \E photontable_exists \in BOOLEAN, num_chunks \in 1..MaxChunks,
          chunk_steps \in 1..MaxChunkSteps :
           CallEnter(photontable_exists, num_chunks, chunk_steps) /\ UNCHANGED OutsideCall
    \/ ChunkStep /\ UNCHANGED OutsideCall
    \/ AfterChunks /\ UNCHANGED OutsideCall

SpecCall == InitCall /\ [][NextCall]_vars

\* the parts of the complex values fed to the intensity functions
Parts == (-MaxPart)..MaxPart

ComplexValues == {Complex(re, im) : re \in Parts, im \in Parts}

InitIntensity ==
    /\ sp = SpCubes(<<"detector">>, 1)
    /\ ap \in {ApCubes(FALSE, 1, 1)}
    /\ post = NoCall
    /\ PrescriptionIdle
    /\ wf_collection = <<>>
    /\ saved_planes = <<>>
    /\ Efield_planes = NdArray(<<0>>, <<>>)
    /\ plane_sampling = <<>>
    /\ returned = <<>>
    /\ RunMedisIdle
    /\ datadir = FALSE
    /\ MiniMedisIdle
    /\ CallIdle

OutsideIntensity ==
    <<wf_collection, saved_planes, Efield_planes, plane_sampling, returned,
      rmvars, mmvars, callvars, prescvars>>

NextIntensity ==
    \/ /\ post = NoCall
       /\ \E a \in ComplexValues, b \in ComplexValues, e \in [1..3 -> Rounding] :
              CpxToIntensity(<<a, b>>, e)
       /\ UNCHANGED OutsideIntensity
    \/ /\ post = NoCall
       /\ \E W \in 1..MaxWvl, O \in 1..(1 + MaxCompanions) :
              \E wframe \in [1..W -> [1..O -> SampleValues]] :
                  MiniFocalPlane(wframe)
       /\ UNCHANGED OutsideIntensity

SpecIntensity == InitIntensity /\ [][NextIntensity]_vars

\* ap as the prescriptions and offset_companion read it
ApPrescription(n_wvl_init, companion, n) ==
    [n_wvl_init |-> n_wvl_init, companion |-> companion,
     contrast |-> SubSeq(<<"contrast 0", "contrast 1", "contrast 2">>, 1, n),
     companion_xy |-> SubSeq(<<"xy 0", "xy 1", "xy 2">>, 1, n)]

PrescriptionNames == {"Subaru_SCExAO", "general_telescope"}

\* proper has called the prescription: wfo = opx.Wavefronts()
InitPrescription ==
    /\ sp \in {SpParams(<<"atmosphere", "entrance_pupil">>, sf, g, FALSE) :
                   sf \in BOOLEAN, g \in GridSizes}
    /\ ap \in {ApPrescription(w, c, n) :
                   w \in 1..MaxWvl, c \in BOOLEAN, n \in 0..MaxCompanions}
    /\ WavefrontsInit
    /\ presc \in {[name |-> name, tp |-> [obscure |-> o, use_atmos |-> a],
                    pc |-> 1, exc |-> NoExc, calls |-> <<>>] :
                       name \in PrescriptionNames, o \in BOOLEAN, a \in BOOLEAN}
    /\ RunMedisIdle
    /\ datadir = FALSE
    /\ post = NoCall
    /\ MiniMedisIdle
    /\ CallIdle

NextPrescription ==
    \/ PrescriptionStep /\ UNCHANGED <<rmvars, postvars, mmvars, callvars>>

SpecPrescription == InitPrescription /\ [][NextPrescription]_vars


(***************************************************************************)
(* Claims about Wavefronts (SpecWavefronts)                                *)
(***************************************************************************)
\* the snapshot save_plane takes of the cells as they are after the step
SnapshotOfCells == [c \in Cells |-> prop_shift_center(wf_collection'[c].wfarr)]

\* the name a loop_collection call asks to be saved under
RequestedName(func, kwargs) ==
    IF "plane_name" \in DOMAIN kwargs THEN kwargs["plane_name"] ELSE func

\* the step is a call that saves under name
SavedUnder(name) ==
    \/ SavePlane(name)
    \/ FocalPlane /\ name = "detector"
    \/ \E func \in FuncNames, kwargs \in KwargsSet :
           LoopCollection(func, kwargs) /\ RequestedName(func, kwargs) = name

ArchiveUnchanged ==
    /\ Efield_planes' = Efield_planes
    /\ saved_planes' = saved_planes
    /\ plane_sampling' = plane_sampling

C1_Lengths ==
    /\ Len(saved_planes) = Efield_planes.shape[1]
    /\ Len(Efield_planes.data) = Efield_planes.shape[1]
    /\ Len(plane_sampling) = Efield_planes.shape[1]

C1_NamedStep ==
    Efield_planes' # Efield_planes =>
        \E name \in PlaneNames \cup FuncNames :
            /\ SavedUnder(name)
            /\ saved_planes' = Append(saved_planes, name)
            /\ Efield_planes'.data = Append(Efield_planes.data, SnapshotOfCells)

\* C1: after any sequence of loop_collection, save_plane and focal_plane calls the
\* saved-plane list, the leading axis of Efield_planes and plane_sampling have the
\* same length, and whenever the archive gains an entry the name appended at the
\* same position is the name that call saved under.
C1_NamesFollowArchive == [](C1_Lengths) /\ [][C1_NamedStep]_vars

\* two differently named snapshots, the second taken by focal_plane after an operation
C1_Witness ==
    /\ Len(saved_planes) = 2
    /\ saved_planes[1] # saved_planes[2]
    /\ returned # <<>>
    /\ wf_collection[<<0, 0>>].wfarr.state # <<>>

\* C2: save_plane(name) with name in the save list grows the leading dimension by
\* exactly 1, appends name to saved_planes and keeps every earlier entry and name in
\* place; with name absent from the save list (or None) it leaves the archive, the
\* saved-plane list and the sampling list unchanged, on every call.
C2_SavePlaneAppendsOrNoOp ==
    [][\A name \in PlaneNames \cup {None} :
          (wf_collection' = wf_collection /\ returned' = <<>> /\ SavePlane(name)) =>
              IF InList(name, sp.save_list)
              THEN /\ Efield_planes'.shape[1] = Efield_planes.shape[1] + 1
                   /\ Tail5(Efield_planes'.shape) = Tail5(Efield_planes.shape)
                   /\ Len(Efield_planes'.data) = Len(Efield_planes.data) + 1
                   /\ \A i \in 1..Len(Efield_planes.data) :
                          Efield_planes'.data[i] = Efield_planes.data[i]
                   /\ saved_planes' = Append(saved_planes, name)
                   /\ Len(plane_sampling') = Len(plane_sampling) + 1
                   /\ \A i \in 1..Len(plane_sampling) :
                          plane_sampling'[i] = plane_sampling[i]
              ELSE ArchiveUnchanged]_vars

\* two entries, both saved by direct save_plane calls, with an operation in between
C2_Witness ==
    /\ Len(saved_planes) = 2
    /\ ~InList("detector", sp.save_list)
    /\ Efield_planes.data[1] # Efield_planes.data[2]
    /\ returned = <<>>

C4_ExplicitNameWins ==
    [][\A func \in FuncNames, kwargs \in KwargsSet :
          (/\ wf_collection'[<<0, 0>>].wfarr.state =
                  Append(wf_collection[<<0, 0>>].wfarr.state, func)
           /\ LoopCollection(func, kwargs)) =>
              LET name == RequestedName(func, kwargs)
              IN  /\ IF sp.save_fields /\ InList(name, sp.save_list)
                     THEN /\ saved_planes' = Append(saved_planes, name)
                          /\ Efield_planes'.shape[1] = Efield_planes.shape[1] + 1
                     ELSE ArchiveUnchanged
                  /\ \A c \in Cells :
                         wf_collection'[c].recv = DOMAIN kwargs \ {"plane_name"}]_vars

\* saving on and 'pupil' listed, yet the operation named pupil was applied and
\* nothing saved: it was called with an explicit plane_name outside the save list
C4_Witness ==
    /\ sp.save_fields
    /\ InList("pupil", sp.save_list)
    /\ wf_collection[<<0, 0>>].wfarr.state = <<"pupil">>
    /\ saved_planes = <<>>
    /\ returned = <<>>

\* the ensemble of the end-to-end example: W=2, O=1, grid=8, one operation 'pupil'
\* applied and saved
C5_Example ==
    /\ CollectionShape = <<2, 1>>
    /\ sp.grid_size = 8
    /\ wf_collection[<<0, 0>>].wfarr.state = <<"pupil">>
    /\ saved_planes = <<"pupil">>

C5_Returns ==
    /\ returned'[1] = Efield_planes'
    /\ returned'[2].data = plane_sampling'
    /\ returned'[1].shape[1] = Len(saved_planes')

C5_ExampleShapes ==
    C5_Example =>
        \/ /\ returned'[1].shape = <<1, 2, 1, 8, 8>>
           /\ saved_planes' = <<"pupil">>
        \/ /\ returned'[1].shape = <<2, 2, 1, 8, 8>>
           /\ saved_planes' = <<"pupil", "detector">>

HasCache == testdir.exists /\ testdir.pkl # <<>>

\* the configuration groups the snapshot on disk holds
Cached == pickle_load(testdir.pkl[1])

\* equality of two values under numpy's element-wise comparison
ArrayAwareEqual(a, b) ==
    IF a.kind = "opaque" \/ b.kind = "opaque"
    THEN a = b
    ELSE /\ Broadcastable(a, b)
         /\ \A i \in 1..Max(Len(a.v), Len(b.v)) : BroadcastAt(a, i) = BroadcastAt(b, i)

\* the i-th zipped entry of group p: equal names and equal values
EntryAgrees(p, i) ==
    /\ params[p][i][1] = Cached[p][i][1]
    /\ ArrayAwareEqual(Cached[p][i][2], params[p][i][2])

ZippedEntries(p) == 1..Min(Len(params[p]), Len(Cached[p]))

GroupAgrees(p) == \A i \in ZippedEntries(p) : EntryAgrees(p, i)

\* current and cached configuration differ in exactly the scalar value of entry i of p
SingleScalarChange(p, i) ==
    /\ \A q \in Groups : Len(params[q]) = Len(Cached[q])
    /\ i \in 1..Len(params[p])
    /\ \A q \in Groups : \A j \in 1..Len(params[q]) :
           <<q, j>> # <<p, i>> => params[q][j] = Cached[q][j]
    /\ params[p][i][1] = Cached[p][i][1]
    /\ params[p][i][2].kind = "scalar"
    /\ Cached[p][i][2].kind = "scalar"
    /\ params[p][i][2] # Cached[p][i][2]

\* C6: check_params reports a group as matching iff every zipped entry of the group
\* has equal names and equal values, the run is an exact match iff all seven groups
\* match, identical configurations give a full match, and a change of one scalar
\* value makes its group a non-match and exact_match False.
C6_GroupMatchesIffAllEntries ==
    (HasCache /\ check_params.exc = NoExc) =>
        LET match_params == check_params.match_params
        IN  /\ DOMAIN match_params = Groups
            /\ Cardinality(Groups) = 7
            /\ \A p \in Groups : match_params[p] <=> GroupAgrees(p)
            /\ exact_match(match_params) <=> \A p \in Groups : match_params[p]
            /\ params = Cached => exact_match(match_params)
            /\ \A p \in Groups : \A i \in 1..Len(params[p]) :
                   SingleScalarChange(p, i) =>
                       ~match_params[p] /\ ~exact_match(match_params)

\* one scalar of the last group changed after the run was cached, and the
\* constructor found the prior run to differ
C6_Witness ==
    /\ HasCache
    /\ SingleScalarChange("mp", 1)
    /\ result.found = "PRIOR_RUN_DIFFERS"

\* C7: a cached run is reused only if every attribute of every group matches; a
\* group whose current and cached attribute lists differ in length while agreeing
\* on the common prefix is reported as a non-match.
C7_LengthMismatchIsNonMatch ==
    (HasCache /\ check_params.exc = NoExc) =>
        \A p \in Groups :
            (Len(params[p]) # Len(Cached[p]) /\ GroupAgrees(p)) =>
                /\ ~check_params.match_params[p]
                /\ RunState # "PRIOR_RUN_MATCHES"

\* the comparison of a zipped entry's values raises
ComparisonRaises(p, i) ==
    /\ params[p][i][1] = Cached[p][i][1]
    /\ np_all_eq(Cached[p][i][2], params[p][i][2]) \notin {"True", "False"}

\* C8: an exception of any kind raised while comparing two values becomes a
\* non-match of that entry and never leaves check_params; the remaining entries
\* and groups are still compared.
C8_NoComparisonExceptionEscapes ==
    HasCache =>
        /\ check_params.exc = NoExc
        /\ DOMAIN check_params.match_params = Groups
        /\ \A p \in Groups : \A i \in ZippedEntries(p) :
               ComparisonRaises(p, i) => ~check_params.match_params[p]
        /\ result.found # "COMPARISON_RAISED"

\* C9: with no run directory or no configuration snapshot in it, constructing
\* RunMedis creates the directory and writes the snapshot of the current
\* configuration without prompting; a construction that then finds that snapshot
\* with the configuration unchanged finds PRIOR_RUN_MATCHES.
C9_NoPriorRunCreatesSnapshot ==
    [][/\ (NoSimulationData /\ params' = params /\ RunMedisInit) =>
                 /\ datadir'
                 /\ testdir'.exists
                 /\ testdir'.pkl # <<>>
                 /\ pickle_load(testdir'.pkl[1]) = params
                 /\ testdir'.h5 = testdir.h5 /\ testdir'.maps = testdir.maps
                 /\ backups' = backups
                 /\ result' = Result("returned", "NO_PRIOR_RUN", FALSE, NoExc)
       /\ (HasCache /\ Cached = params /\ params' = params /\ RunMedisInit) =>
                 result' = Result("returned", "PRIOR_RUN_MATCHES", FALSE, NoExc)]_vars

\* the second construction, with the configuration never edited, found a match
C9_Witness ==
    /\ result.found = "PRIOR_RUN_MATCHES"
    /\ edits = 0
    /\ HasCache

\* the prior run matches the requested configuration
PriorRunMatches == HasCache /\ \A p \in Groups : GroupAgrees(p)

\* C10: constructing RunMedis when the prior run matches mutates nothing on disk:
\* the run directory, its configuration snapshot, fields.h5 and the map
\* subdirectories (and the backups beside it) stay as they were.
C10_MatchMutatesNothing ==
    [][(PriorRunMatches /\ params' = params /\ RunMedisInit) =>
          /\ testdir' = testdir
          /\ backups' = backups
          /\ datadir' = datadir
          /\ result'.found = "PRIOR_RUN_MATCHES"]_vars

\* a matching prior run holding fields.h5 and maps was found again by a constructor
C10_Witness ==
    /\ result.found = "PRIOR_RUN_MATCHES"
    /\ PriorRunMatches
    /\ testdir.h5
    /\ testdir.maps

\* the policy of section 4.5 an answer to the prompt selects
Policy(choice) ==
    CASE choice \in {"q", "Q"} -> "ABORT"
      [] choice \in {"r", "R"} -> "ARCHIVE_AND_RESTART"
      [] choice \in {"p", "P"} -> "SELECTIVE_OVERWRITE"
      [] choice \in {"l", "L"} -> "FORCE_REUSE"
      [] OTHER -> "none"

\* the step is a RunMedis construction that found the prior run to differ and was
\* answered with policy
PolicyStep(policy) ==
    /\ params' = params
    /\ Policy(result'.choice) = policy
    /\ RunState = "PRIOR_RUN_DIFFERS"
    /\ RunMedisInit

DiskUnchanged ==
    /\ testdir' = testdir
    /\ backups' = backups
    /\ datadir' = datadir

\* C11: with the prior run differing and policy SELECTIVE_OVERWRITE, whenever
\* fields.h5 is in the run directory the policy is rejected: the constructor
\* exits, nothing on disk is deleted or modified and the snapshot still exists.
C11_OverwriteRejectedWithFields ==
    [][(testdir.h5 /\ PolicyStep("SELECTIVE_OVERWRITE")) =>
          /\ result'.outcome = "exited"
          /\ DiskUnchanged
          /\ testdir'.pkl # <<>>]_vars

\* SELECTIVE_OVERWRITE was rejected on a directory holding fields.h5 and maps
C11_Witness ==
    /\ Policy(result.choice) = "SELECTIVE_OVERWRITE"
    /\ result.outcome = "exited"
    /\ testdir.h5
    /\ testdir.maps
    /\ HasCache

C13_ArchiveThenFreshRun ==
    [][PolicyStep("ARCHIVE_AND_RESTART") =>
          /\ backups' = Append(backups, testdir)
          /\ testdir'.exists
          /\ testdir'.pkl # <<>>
          /\ pickle_load(testdir'.pkl[1]) = params
          /\ ~testdir'.h5
          /\ ~testdir'.maps
          /\ result'.outcome = "returned"]_vars

\* C14: with the prior run differing, policy ABORT exits and policy FORCE_REUSE
\* returns as if the configuration matched; neither changes anything on disk,
\* and the cached snapshot stays as it was.
C14_AbortAndForceReuseMutateNothing ==
    [][/\ PolicyStep("ABORT") =>
              result'.outcome = "exited" /\ DiskUnchanged
       /\ PolicyStep("FORCE_REUSE") =>
              /\ result'.outcome = "returned"
              /\ DiskUnchanged
              /\ testdir'.pkl = testdir.pkl]_vars

\* FORCE_REUSE returned on a run directory whose snapshot differs from the
\* requested configuration and still does
C14_Witness ==
    /\ Policy(result.choice) = "FORCE_REUSE"
    /\ result.outcome = "returned"
    /\ HasCache
    /\ Cached # params
    /\ testdir.maps


(***************************************************************************)
(* Claims about the cube-processing functions (SpecCubes)                  *)
(***************************************************************************)
\* the 0-based index of the first occurrence of name in the save list, if any
SaveListIndexes(name) ==
    {ip \in 0..(Len(sp.save_list) - 1) :
        /\ sp.save_list[ip + 1] = name
        /\ \A j \in 1..ip : sp.save_list[j] # name}

C19_DegenerateInterpolationFails ==
    (/\ post.func = "interp_wavelength"
     /\ ap.interp_wvl
     /\ ap.n_wvl_final <= ap.n_wvl_init) => post.ret.exc # NoExc

\* C20: extract_center fails whenever sp.maskd_size exceeds the field's
\* dimensions; for every size not exceeding them it returns exactly
\* maskd_size x maskd_size elements, contiguous and centred in the field.
C20_ExtractCenterChecksSize ==
    post.func = "extract_center" =>
        LET n == post.args[1][1]
            size == sp.maskd_size
            out == post.ret.value
        IN  IF size > n
            THEN post.ret.exc # NoExc
            ELSE /\ post.ret.exc = NoExc
                 /\ Len(out) = size
                 /\ \A r \in 1..size : Len(out[r]) = size
                 /\ \A r \in 1..size : \A c \in 1..size :
                        /\ out[r][c] = <<out[1][1][1] + r - 1, out[1][1][2] + c - 1>>
                        /\ out[r][c][1] \in 0..(n - 1)
                        /\ out[r][c][2] \in 0..(n - 1)
                 /\ size > 0 =>
                        \A ax \in 1..2 :
                            LET before == out[1][1][ax]
                                after == n - (out[1][1][ax] + size)
                            IN  before - after \in {-1, 0, 1}


\* the results have all been received: the loop of lines 94-96 is over
Collected == driver.pc \in {"join", "joined"}

\* C15: once run_mmedis has collected its results, slot i of obs_sequence
\* holds the cube of timestep startframe + i, in whatever order the workers
\* delivered them
C15_ObsSequenceInTimestepOrder ==
    Collected =>
        \A i \in 0..(sp.numframes - 1) :
            obs_sequence[i + 1] = spectralcube(sp.startframe + i)

\* two workers delivered two timesteps in the reverse order
C15_Witness ==
    /\ Collected
    /\ sp.num_processes = 2
    /\ driver.arrived = <<sp.startframe + 1, sp.startframe>>

\* the timesteps whose result was put on spectral_queue
Delivered ==
    {spectral_queue[k][1] : k \in DOMAIN spectral_queue}
        \cup {driver.arrived[k] : k \in DOMAIN driver.arrived}

\* the timesteps during which a worker raised
RaisedAt == {workers[w].raised_at : w \in Procs} \ {-1}

AllTerminated == \A w \in Procs : Terminated(w)

\* every timestep of the run has been put on inqueue
AllEnqueued == driver.pc \notin {"start", "put"}

\* C16: a worker that raises during a timestep abandons only that timestep:
\* no result for it is delivered, and every other enqueued timestep is still
\* processed and delivered, for any number of workers, one included
C16_FailureDropsOnlyThatTimestep ==
    /\ RaisedAt \cap Delivered = {}
    /\ (AllEnqueued /\ AllTerminated) => (Frames \ RaisedAt) \subseteq Delivered

\* the call the camera must receive for chunk number ichunk
IsChunkCall(call, ichunk) ==
    /\ call.method = "__call__"
    /\ DOMAIN call = {"method", "fields", "abs_step", "finalise_photontable"}
    /\ call.abs_step = ichunk * tel.chunk_steps
    /\ call.fields = [span |-> <<ichunk * tel.chunk_steps,
                                 ichunk * tel.chunk_steps + tel.chunk_steps>>]
    /\ call.finalise_photontable = FALSE

\* C17: a chunked telescope run with the photons product calls the camera
\* once per chunk, in increasing chunk order, each call with its absolute
\* step offset, its own span of steps and the finalise flag off, and after
\* the last chunk makes exactly one finalising call
C17_CameraOncePerChunkThenFinalise ==
    (stage.product = "photons" /\ tel.called /\ tel.num_chunks > 1) =>
        /\ \A i \in 1..Len(cam.calls) :
               i <= tel.num_chunks => IsChunkCall(cam.calls[i], i - 1)
        /\ stage.pc = "chunks" => Len(cam.calls) = stage.ichunk
        /\ stage.pc = "returned" =>
               /\ Len(cam.calls) = tel.num_chunks + 1
               /\ cam.calls[tel.num_chunks + 1].method = "save_photontable"

\* three chunks of two steps were handed to the camera, then the table finalised
C17_Witness ==
    /\ stage.pc = "returned"
    /\ stage.product = "photons"
    /\ tel.num_chunks = 3
    /\ tel.chunk_steps = 2
    /\ Len(cam.calls) = 4
    /\ cam.photontable_exists


\* how many times the workers took item x from inqueue
DequeueCount(x) ==
    Cardinality({<<w, k>> \in Procs \X (1..(MaxFrames + 2)) :
                    k <= Len(workers[w].got) /\ workers[w].got[k] = x})

\* how many results tagged t were put on spectral_queue
DeliveredCount(t) ==
    Cardinality({k \in DOMAIN spectral_queue : spectral_queue[k][1] = t})
        + Cardinality({k \in DOMAIN driver.arrived : driver.arrived[k] = t})

TimestepQueued == \E k \in DOMAIN inqueue : ~inqueue[k].sentinel

\* C24: under every interleaving each timestep is dequeued by exactly one
\* worker and processed exactly once, no worker receives a sentinel while a
\* timestep is still queued, and each worker consumes exactly one sentinel
C24_QueueDiscipline ==
    /\ \A t \in Frames : DequeueCount(Item(t)) <= 1 /\ DeliveredCount(t) <= 1
    /\ (\E w \in Procs : InList(sentinel, workers[w].got)) =>
           (AllEnqueued /\ ~TimestepQueued)
    /\ \A w \in Procs :
           Cardinality({k \in DOMAIN workers[w].got : workers[w].got[k] = sentinel}) <= 1
    /\ (AllEnqueued /\ AllTerminated) =>
           /\ \A t \in Frames : DequeueCount(Item(t)) = 1
           /\ \A w \in Procs : InList(sentinel, workers[w].got)

\* the driver waits in spectral_queue.get() for a result no one will send
DriverBlocked ==
    /\ driver.pc = "collect"
    /\ spectral_queue = <<>>
    /\ AllTerminated

\* C27: run_mmedis goes on to the join only after exactly numframes results;
\* once a worker has raised during a timestep the driver never gets there,
\* whatever the workers do afterwards
C27_DriverNeverReturnsAfterRaise ==
    /\ Collected => Len(driver.arrived) = sp.numframes
    /\ RaisedAt # {} => ~Collected

\* a worker raised, every worker has terminated, and the driver still waits
C27_Witness ==
    /\ RaisedAt # {}
    /\ DriverBlocked
    /\ sp.num_processes = 2
    /\ Len(driver.arrived) = sp.numframes - 1
    /\ sp.numframes = 2

\* C28: for every startframe >= 0 no worker meets an index error at
\* theta_series[t]
C28_ThetaLookupInBounds ==
    \A w \in Procs : workers[w].exc # "IndexError"


\* C29: whenever the RunMedis constructor returns normally the run directory
\* exists and holds a configuration snapshot
C29_SnapshotAfterNormalReturn ==
    result.outcome = "returned" => (testdir.exists /\ testdir.pkl # <<>>)


(***************************************************************************)
(* Further claims about Wavefronts (SpecWavefronts)                        *)
(***************************************************************************)
\* the number of astronomical objects: the star and, when enabled, the companions
ObjectCount == IF ap.companion THEN 1 + Len(ap.contrast) ELSE 1

C22_Grid ==
    /\ DOMAIN wf_collection =
           (0..(ap.n_wvl_init - 1)) \X (0..(ObjectCount - 1))
    /\ Tail5(Efield_planes.shape) =
           <<ap.n_wvl_init, ObjectCount, sp.grid_size, sp.grid_size>>

C22_Initialized ==
    (\E c \in DOMAIN wf_collection : ~wf_collection[c].populated) =>
        /\ InitializeProper
        /\ \A c \in DOMAIN wf_collection : wf_collection'[c].populated
        /\ Efield_planes'.shape[1] = 0

\* C22: for every wavelength count W and companion count N, the constructed
\* ensemble has W x O cells with O = 1 + N when companions are enabled and 1
\* otherwise, initialize_proper populates every one of them and leaves the
\* archive with shape (0, W, O, grid, grid), and W and O never change afterwards
C22_CellGridIsWByO == [](C22_Grid) /\ [][C22_Initialized]_vars /\ [][ap' = ap]_vars

\* two wavelengths, the star and one companion, all initialized
C22_Witness ==
    /\ ap.n_wvl_init = 2
    /\ ap.companion
    /\ Len(ap.contrast) = 1
    /\ Cardinality(DOMAIN wf_collection) = 4
    /\ \A c \in DOMAIN wf_collection : wf_collection[c].populated
    /\ Efield_planes.shape = <<0, 2, 2, sp.grid_size, sp.grid_size>>


\* every archive entry shows all cells after the same operations
C23_SnapshotsWhole ==
    \A k \in DOMAIN Efield_planes.data :
        \A c, d \in DOMAIN Efield_planes.data[k] :
            Efield_planes.data[k][c].state = Efield_planes.data[k][d].state

\* a step that changes the cells of an initialized ensemble applies one
\* operation once to each cell, and a snapshot it takes shows the cells after it
C23_Step ==
    (AllCellsPopulated /\ wf_collection' # wf_collection) =>
        /\ \E func \in FuncNames :
               \A c \in DOMAIN wf_collection :
                   wf_collection'[c].wfarr.state =
                       Append(wf_collection[c].wfarr.state, func)
        /\ Efield_planes' # Efield_planes =>
               Efield_planes'.data = Append(Efield_planes.data, SnapshotOfCells)

\* C23: within one loop_collection call the operation is applied to every
\* (wavelength, object) cell exactly once and the snapshot of the step is taken
\* after all cells were updated; no snapshot shows some cells with the
\* operation applied and others without
C23_AllCellsBeforeSnapshot == [](C23_SnapshotsWhole) /\ [][C23_Step]_vars

\* a snapshot taken by loop_collection of four cells, each after one operation
C23_Witness ==
    /\ Cardinality(DOMAIN wf_collection) = 4
    /\ Len(Efield_planes.data) >= 1
    /\ saved_planes[1] # "detector"
    /\ \A c \in DOMAIN wf_collection :
           /\ Len(wf_collection[c].wfarr.state) = 1
           /\ Efield_planes.data[1][c].state = wf_collection[c].wfarr.state


\* C30: after a complete prescription run (focal_plane has returned) with
\* saving enabled, the saved-plane list equals the configured save list, so
\* that the archive entry at index save_list.index(n) is the one saved under n
C30_SavedPlanesEqualSaveList ==
    (returned # <<>> /\ sp.save_fields) => saved_planes = sp.save_list


(***************************************************************************)
(* Claims about intensities (SpecIntensity)                                *)
(***************************************************************************)
\* Re(a * conj(b)) of the two object fields of the call
CrossTerm == post.args[1].re * post.args[2].re + post.args[1].im * post.args[2].im

C21_Elementwise ==
    \A io \in 1..2 :
        /\ post.ret.each[io].int =
               post.args[io].re * post.args[io].re + post.args[io].im * post.args[io].im
        /\ post.ret.each[io].err \in Rounding

\* C21 as stated: cpx_to_intensity is the elementwise squared magnitude;
\* intensity-then-sum differs from sum-then-intensity whenever the cross term
\* Re(a*conj(b)) is nonzero, and the two are equal otherwise
C21_DiffersIffCrossTerm ==
    post.func = "cpx_to_intensity" =>
        /\ C21_Elementwise
        /\ (CrossTerm # 0) <=> (post.ret.then_sum # post.ret.sum_then)

\* C21, amended: cpx_to_intensity is the elementwise squared magnitude up to
\* rounding; intensity-then-sum differs from sum-then-intensity whenever the
\* cross term is nonzero; with a zero cross term the two agree up to rounding,
\* and exactly when no square root had to be rounded
C21_DiffersWhenCrossTerm ==
    post.func = "cpx_to_intensity" =>
        /\ C21_Elementwise
        /\ CrossTerm # 0 => post.ret.then_sum.int # post.ret.sum_then.int
        /\ CrossTerm = 0 => post.ret.then_sum.int = post.ret.sum_then.int
        /\ (CrossTerm = 0 /\ post.ret.then_sum.err = 0 /\ post.ret.sum_then.err = 0) =>
               post.ret.then_sum = post.ret.sum_then

\* a nonzero cross term: a = b = 1, intensities 1 + 1 against |1 + 1|^2 = 4
C21_Witness ==
    /\ post.func = "cpx_to_intensity"
    /\ post.args = <<Complex(1, 0), Complex(1, 0)>>
    /\ post.ret.then_sum = Float(2, 0)
    /\ post.ret.sum_then = Float(4, 0)


RECURSIVE SumOverObjects(_)
SumOverObjects(frames) ==
    IF frames = <<>> THEN 0 ELSE Head(frames) + SumOverObjects(Tail(frames))

\* C26: the mini-MEDIS focal_plane returns for each wavelength the sum over
\* all objects of that wavelength's intensity frames, star and companions
C26_CompositeIsSumOverObjects ==
    post.func = "focal_plane" =>
        \A iw \in DOMAIN post.args :
            post.ret[iw] = SumOverObjects(post.args[iw])


(***************************************************************************)
(* Claims about the prescriptions (SpecPrescription)                       *)
(***************************************************************************)
CompanionStepDone ==
    \E k \in DOMAIN presc.calls : presc.calls[k].func = "offset_companion"

\* the cell of companion c[2] carries that companion's location and contrast
OffsetAndScaled(c) ==
    /\ InList(ap.companion_xy[c[2]], wf_collection[c].wfarr.state)
    /\ InList(ap.contrast[c[2]], wf_collection[c].wfarr.state)

Untouched(c) ==
    \A io \in 1..Len(ap.contrast) :
        /\ ~InList(ap.companion_xy[io], wf_collection[c].wfarr.state)
        /\ ~InList(ap.contrast[io], wf_collection[c].wfarr.state)

\* C25: in every prescription the companion offset-and-scale step is applied
\* once to the whole ensemble, outside loop_collection, and it modifies the
\* companion cells only, each with the location and contrast of its own
\* companion, leaving the cells of the primary source unchanged
C25_CompanionStepOutsideAdapter ==
    /\ \A k \in DOMAIN presc.calls :
           presc.calls[k].func = "offset_companion" => presc.calls[k].via = "direct"
    /\ CompanionStepDone =>
           /\ presc.exc = NoExc
           /\ \A c \in DOMAIN wf_collection :
                  IF c[2] >= 1 THEN OffsetAndScaled(c) ELSE Untouched(c)

====
